---- MODULE Spec2Model ----
(***************************************************************************)
(* Model of functions/utils.py of the snow-cover-mapping application:      *)
(*   - calculate_sla_bounds             (snowline-altitude uncertainty)    *)
(*   - determine_best_model             (K-fold model selection)           *)
(*   - assess_model_feature_importances (permutation importances)          *)
(*                                                                         *)
(* Real numbers are exact rationals <<numerator, denominator>> with a      *)
(* positive denominator; a missing raster cell (NaN) is the sentinel NaN.  *)
(***************************************************************************)
EXTENDS Integers, Sequences, FiniteSets, TLC

VARIABLES
    \* ---- calculate_sla_bounds ----
    dem,              \* flattened DEM: sequence of elevations, NaN for a missing cell
    snow_cover_mask,  \* flattened snow mask: sequence of 0 / 1 / NaN
    stats_df,         \* [AAR |-> k (meaning k / AarDen), ELA_from_AAR_m |-> elevation]
    dx,               \* pixel size
    sla_call,         \* position and outcome of the call
    \* ---- determine_best_model: arguments and environment ----
    data_rows,        \* len(data); the rows are 0 .. data_rows-1
    nmodels,          \* len(models); candidate i of the model is models[i-1]
    num_folds,
    out_path,         \* "None", "missing" (no such directory) or "dir"
    save_performances,
    np_random,        \* state of numpy's global RNG, the only seed a caller can set
    files,            \* files present in the output directories
    \* ---- determine_best_model: locals ----
    cv_pc,            \* position in the function, "returned" or "raised"
    cv_err,           \* the exception that left the function
    i,                \* candidate being evaluated (1-based)
    j,                \* fold counter
    kfold_splits,     \* test index sets yielded by kfold.split(X) for candidate i
    folds,            \* the five *_folds arrays of candidate i
    fold_log,         \* what each finished fold of candidate i measured, in order
    perf,             \* the five per-candidate metric arrays
    estimator_calls,  \* per candidate: the fit / predict calls it received
    ibest,
    best_model_retrained,   \* index of the returned estimator, 0 before the return
    \* ---- repeated runs ----
    run,              \* number of the current run of determine_best_model
    first_run,        \* the first run's RNG state and the folds each candidate saw
    \* ---- assess_model_feature_importances ----
    fi_call           \* arguments and outcome of the call

sla_vars == <<dem, snow_cover_mask, stats_df, dx, sla_call>>

cv_args == <<data_rows, nmodels, num_folds, out_path, save_performances>>
cv_locals == <<cv_pc, cv_err, i, j, kfold_splits, folds, fold_log, perf, estimator_calls,
               ibest, best_model_retrained>>
cv_vars == <<cv_args, np_random, files, cv_locals, run, first_run, fi_call>>

vars == <<sla_vars, cv_vars>>

-----------------------------------------------------------------------------
(* Bounds of the model *)

MaxCells == 2     \* raster cells: 1..MaxCells
MaxElev == 3      \* elevations: 1..MaxElev
AarDen == 2       \* AAR takes the values 0/AarDen .. AarDen/AarDen
MaxRows == 3      \* rows of the data table: 1..MaxRows
MaxFolds == 2     \* num_folds: 2..MaxFolds
MaxModels == 2    \* candidates: 0..MaxModels

NaN == -1

Elevations == 1..MaxElev
DxValues == {1, 2}

-----------------------------------------------------------------------------
(* Rational arithmetic *)

RLeq(a, b) == a[1] * b[2] <= b[1] * a[2]
REq(a, b) == a[1] * b[2] = b[1] * a[2]
RInt(n) == <<n, 1>>

-----------------------------------------------------------------------------
(* numpy helpers used by calculate_sla_bounds *)

isnan(x) == x = NaN

\* the non-missing values of a flattened array, as a set of cell indices
ValidCells(a) == {c \in 1..Len(a) : ~isnan(a[c])}

RECURSIVE SortCells(_, _)
\* ascending order statistics of the cells `cells` of array a
SortCells(a, cells) ==
    IF cells = {} THEN <<>>
    ELSE LET lo == CHOOSE c \in cells : \A d \in cells : a[c] <= a[d]
         IN  <<a[lo]>> \o SortCells(a, cells \ {lo})

\* np.clip(q, 0, 1) on a rational
clip_no_upper(q) == IF q[1] < 0 THEN <<0, q[2]>> ELSE q
clip(q) ==
    IF q[1] < 0 THEN <<0, q[2]>> ELSE IF q[1] > q[2] THEN <<q[2], q[2]>> ELSE q

\* np.nanpercentile(a, q * 100): linear interpolation between the order
\* statistics of the non-missing values; a ValueError when q is outside [0,1]
nanpercentile(a, q) ==
    LET v == SortCells(a, ValidCells(a))
        n == Len(v)
        pos == q[1] * (n - 1)          \* virtual index (n-1) * q, times q[2]
        lo == pos \div q[2]
        rem == pos % q[2]
    IN  IF q[1] < 0 \/ q[1] > q[2] \/ n = 0
        THEN [ok |-> FALSE, val |-> <<0, 1>>]
        ELSE IF rem = 0
        THEN [ok |-> TRUE, val |-> <<v[lo + 1] * q[2], q[2]>>]
        ELSE [ok |-> TRUE,
              val |-> <<v[lo + 1] * q[2] + rem * (v[lo + 2] - v[lo + 1]), q[2]>>]

-----------------------------------------------------------------------------
(* calculate_sla_bounds *)

NoResult == [sla |-> <<0, 1>>, sla_upper_bound |-> <<0, 1>>, sla_lower_bound |-> <<0, 1>>,
             upper_sla_percentile |-> <<0, 1>>, lower_sla_percentile |-> <<0, 1>>,
             delta_up |-> <<0, 1>>, delta_down |-> <<0, 1>>]

\* len(np.argwhere(~np.isnan(dem.data.ravel())).ravel())
npx_of(d) == Cardinality({c \in 1..Len(d) : ~isnan(d[c])})
total_area_of(d, x) == npx_of(d) * x * x

snow_free_above_sla(d, m, s) ==
    {c \in 1..Len(d) : ~isnan(d[c]) /\ d[c] > s /\ m[c] = 0}
snow_covered_below_sla_nonstrict(d, m, s) ==
    {c \in 1..Len(d) : ~isnan(d[c]) /\ d[c] <= s /\ m[c] = 1}
snow_covered_below_sla(d, m, s) ==
    {c \in 1..Len(d) : ~isnan(d[c]) /\ d[c] < s /\ m[c] = 1}

\* lines 109, 122-123, 126-127: the adjusted percentiles before clipping, for
\* total_area > 0.  sla_percentile = 1 - aar = (AarDen - aar) / AarDen
delta_up_of(st, d, m, x) ==
    <<Cardinality(snow_free_above_sla(d, m, st.ELA_from_AAR_m)) * x * x,
      total_area_of(d, x)>>
delta_down_of(st, d, m, x) ==
    <<Cardinality(snow_covered_below_sla(d, m, st.ELA_from_AAR_m)) * x * x,
      total_area_of(d, x)>>
upper_raw_percentile(st, d, m, x) ==
    <<(AarDen - st.AAR) * total_area_of(d, x) + delta_up_of(st, d, m, x)[1] * AarDen,
      AarDen * total_area_of(d, x)>>
lower_raw_percentile(st, d, m, x) ==
    <<(AarDen - st.AAR) * total_area_of(d, x) - delta_down_of(st, d, m, x)[1] * AarDen,
      AarDen * total_area_of(d, x)>>

\* the outcome of one call whose total_area is positive
sla_bounds(st, d, m, x) ==
    LET sla == st.ELA_from_AAR_m
        upper_q == clip(upper_raw_percentile(st, d, m, x))
        lower_q == clip(lower_raw_percentile(st, d, m, x))
        up == nanpercentile(d, upper_q)
        lw == nanpercentile(d, lower_q)
    IN  IF ~up.ok \/ ~lw.ok
        THEN [pc |-> "raised", err |-> "ValueError", res |-> NoResult]
        ELSE [pc |-> "returned", err |-> "",
              res |-> [sla |-> RInt(sla),
                       sla_upper_bound |-> up.val,
                       sla_lower_bound |-> lw.val,
                       upper_sla_percentile |-> upper_q,
                       lower_sla_percentile |-> lower_q,
                       delta_up |-> delta_up_of(st, d, m, x),
                       delta_down |-> delta_down_of(st, d, m, x)]]

\* The whole call.  With no valid cell total_area is 0 and line 122 divides by
\* it: a ZeroDivisionError when dx is a Python number; when dx is a numpy
\* scalar the quotient is nan and np.nanpercentile rejects it (ValueError).
calculate_sla_bounds ==
    /\ sla_call.pc = "call"
    /\ IF total_area_of(dem, dx) = 0
       THEN \E e \in {"ZeroDivisionError", "ValueError"} :
                sla_call' = [pc |-> "raised", err |-> e, res |-> NoResult]
       ELSE sla_call' = sla_bounds(stats_df, dem, snow_cover_mask, dx)
    /\ UNCHANGED <<dem, snow_cover_mask, stats_df, dx, cv_vars>>

-----------------------------------------------------------------------------
(* sklearn.model_selection.KFold as determine_best_model uses it *)

random_state == 1

SeedValues == {1, 2}
PathKinds == {"None", "missing", "dir"}
Rows(n) == 0..(n - 1)

\* RandomState(seed).shuffle(np.arange(n)): a permutation of the rows that
\* depends on the seed only (here: the rotation by seed)
Permutation(seed, n) == [p \in 1..n |-> (p - 1 + seed) % n]

\* The shuffle of one kfold.split(X) call.  With an integer random_state the
\* generator is created afresh from it and the global RNG is left alone.
shuffle_indices_global(g, n) == [idx |-> Permutation(g, n), rng |-> g + 1]
shuffle_indices(g, n) == [idx |-> Permutation(random_state, n), rng |-> g]

\* KFold._iter_test_indices: the first n % k folds have n \div k + 1 rows, the
\* others n \div k; fold f is the f-th slice of the shuffled indices
fold_size(n, k, f) == (n \div k) + (IF f <= n % k THEN 1 ELSE 0)
RECURSIVE fold_start(_, _, _)
fold_start(n, k, f) == IF f = 1 THEN 0 ELSE fold_start(n, k, f - 1) + fold_size(n, k, f - 1)
test_indices(idx, n, k) ==
    [f \in 1..k |-> {idx[p] : p \in (fold_start(n, k, f) + 1)..(fold_start(n, k, f) + fold_size(n, k, f))}]

-----------------------------------------------------------------------------
(* determine_best_model *)

\* what sklearn.metrics reports for one fitted fold, in fixed-point units:
\* the error metrics and R^2 of a perfect and of an imperfect prediction
FoldOutcomes ==
    { [mae |-> 0, mse |-> 0, mape |-> 0, maxerr |-> 0, r2 |-> 1],
      [mae |-> 1, mse |-> 3, mape |-> 2, maxerr |-> 2, r2 |-> 0] }

zeros(n) == [k \in 1..n |-> 0]
rzeros(n) == [k \in 1..n |-> <<0, 1>>]

RECURSIVE SeqSum(_)
SeqSum(q) == IF q = <<>> THEN 0 ELSE q[1] + SeqSum(Tail(q))

\* np.nanmean of an array of finite numbers, and of a scalar
nanmean(a) == <<SeqSum(a), Len(a)>>
nanmean_scalar(x) == <<x, 1>>

\* rsq_folds is the array of line 419 until line 439 rebinds the name to a scalar
rsq_mean(r) == IF r.scalar THEN nanmean_scalar(r.val) ELSE nanmean(r.arr)

NoFolds == [mean_abs_err_folds |-> <<>>, mean_sq_err_folds |-> <<>>,
            mean_abs_percentage_err_folds |-> <<>>, max_err_folds |-> <<>>,
            rsq_folds |-> [scalar |-> FALSE, arr |-> <<>>, val |-> 0]]
NoPerf == [mean_abs_err |-> <<>>, mean_sq_err |-> <<>>, mean_abs_percentage_err |-> <<>>,
           max_err |-> <<>>, rsq |-> <<>>]

Raise(e) == cv_pc' = "raised" /\ cv_err' = e

\* lines 395-406: split the table, allocate the per-candidate metric arrays
Enter ==
    /\ cv_pc = "call"
    /\ perf' = [mean_abs_err |-> rzeros(nmodels), mean_sq_err |-> rzeros(nmodels),
                mean_abs_percentage_err |-> rzeros(nmodels), max_err |-> rzeros(nmodels),
                rsq |-> rzeros(nmodels)]
    /\ i' = 1
    /\ cv_pc' = IF nmodels = 0 THEN "save" ELSE "model"
    /\ UNCHANGED <<sla_vars, cv_args, np_random, files, cv_err, j, kfold_splits, folds, fold_log,
                   estimator_calls, ibest, best_model_retrained, run, first_run, fi_call>>

\* lines 409-423: next candidate; new KFold, zeroed fold arrays, j = 0, and the
\* first step of kfold.split(X), which validates n_splits and shuffles
BeginModel ==
    /\ cv_pc = "model"
    /\ folds' = [mean_abs_err_folds |-> zeros(num_folds),
                 mean_sq_err_folds |-> zeros(num_folds),
                 mean_abs_percentage_err_folds |-> zeros(num_folds),
                 max_err_folds |-> zeros(num_folds),
                 rsq_folds |-> [scalar |-> FALSE, arr |-> zeros(num_folds), val |-> 0]]
    /\ j' = 0
    /\ fold_log' = <<>>
    /\ IF num_folds > data_rows
       THEN /\ Raise("ValueError")
            /\ UNCHANGED <<np_random, kfold_splits, first_run>>
       ELSE LET sh == shuffle_indices(np_random, data_rows)
            IN  /\ kfold_splits' = test_indices(sh.idx, data_rows, num_folds)
                /\ np_random' = sh.rng
                /\ first_run' = IF run = 1
                                THEN [first_run EXCEPT !.splits = Append(@, kfold_splits')]
                                ELSE first_run
                /\ cv_pc' = "fold"
                /\ cv_err' = cv_err
    /\ UNCHANGED <<sla_vars, cv_args, files, i, perf, estimator_calls, ibest,
                   best_model_retrained, run, fi_call>>

train_ix_all_rows == Rows(data_rows)
train_ix == Rows(data_rows) \ kfold_splits[j + 1]
test_ix == kfold_splits[j + 1]

\* lines 423-441: one fold of candidate i: fit on the training rows, predict
\* the test rows, store the metrics at index j, j += 1
FoldStep ==
    /\ cv_pc = "fold"
    /\ j < Len(kfold_splits)          \* kfold.split(X) yields another fold
    /\ \/ \E o \in FoldOutcomes :
            /\ estimator_calls' = [estimator_calls EXCEPT ![i] =
                   @ \o << <<"fit", train_ix>>, <<"predict", test_ix>> >>]
            /\ folds' = [mean_abs_err_folds |->
                             [folds.mean_abs_err_folds EXCEPT ![j + 1] = o.mae],
                         mean_sq_err_folds |->
                             [folds.mean_sq_err_folds EXCEPT ![j + 1] = o.mse],
                         mean_abs_percentage_err_folds |->
                             [folds.mean_abs_percentage_err_folds EXCEPT ![j + 1] = o.mape],
                         max_err_folds |->
                             [folds.max_err_folds EXCEPT ![j + 1] = o.maxerr],
                         rsq_folds |-> [scalar |-> TRUE, arr |-> <<>>, val |-> o.r2]]
            /\ fold_log' = Append(fold_log, o)
            /\ j' = j + 1
            /\ UNCHANGED <<cv_pc, cv_err>>
       \/ \* model.fit raises
          /\ estimator_calls' = [estimator_calls EXCEPT ![i] = @ \o << <<"fit", train_ix>> >>]
          /\ Raise("FitError")
          /\ UNCHANGED <<folds, fold_log, j>>
       \/ \* model.predict raises
          /\ estimator_calls' = [estimator_calls EXCEPT ![i] =
                 @ \o << <<"fit", train_ix>>, <<"predict", test_ix>> >>]
          /\ Raise("PredictError")
          /\ UNCHANGED <<folds, fold_log, j>>
    /\ UNCHANGED <<sla_vars, cv_args, np_random, files, i, kfold_splits, perf, ibest,
                   best_model_retrained, run, first_run, fi_call>>

\* lines 443-448: the per-candidate aggregates
aggregate(f, r) ==
    [mean_abs_err |-> nanmean(f.mean_abs_err_folds),
     mean_sq_err |-> nanmean(f.mean_sq_err_folds),
     mean_abs_percentage_err |-> rsq_mean(r),
     max_err |-> nanmean(f.max_err_folds),
     rsq |-> rsq_mean(r)]

\* lines 443-451 and the loop header: the fold loop of candidate i is over
Aggregate ==
    /\ cv_pc = "fold"
    /\ j = Len(kfold_splits)          \* kfold.split(X) is exhausted
    /\ LET a == aggregate(folds, folds.rsq_folds)
       IN  perf' = [mean_abs_err |-> [perf.mean_abs_err EXCEPT ![i] = a.mean_abs_err],
                    mean_sq_err |-> [perf.mean_sq_err EXCEPT ![i] = a.mean_sq_err],
                    mean_abs_percentage_err |->
                        [perf.mean_abs_percentage_err EXCEPT ![i] = a.mean_abs_percentage_err],
                    max_err |-> [perf.max_err EXCEPT ![i] = a.max_err],
                    rsq |-> [perf.rsq EXCEPT ![i] = a.rsq]]
    /\ i' = i + 1
    /\ cv_pc' = IF i = nmodels THEN "save" ELSE "model"
    /\ UNCHANGED <<sla_vars, cv_args, np_random, files, cv_err, j, kfold_splits, folds,
                   fold_log, estimator_calls, ibest, best_model_retrained, run, first_run,
                   fi_call>>

\* what writing a file under a directory does
write_outcome(path) ==
    CASE path = "None" -> "TypeError"      \* os.path.join(None, fn)
      [] path = "missing" -> "OSError"     \* to_csv / dump into a missing directory
      [] OTHER -> "written"

\* lines 453-462
SavePerformances ==
    /\ cv_pc = "save"
    /\ IF save_performances
       THEN IF write_outcome(out_path) = "written"
            THEN files' = files \cup {"performances"} /\ cv_pc' = "select" /\ cv_err' = cv_err
            ELSE Raise(write_outcome(out_path)) /\ files' = files
       ELSE cv_pc' = "select" /\ UNCHANGED <<files, cv_err>>
    /\ UNCHANGED <<sla_vars, cv_args, np_random, i, j, kfold_splits, folds, fold_log, perf, estimator_calls,
                   ibest, best_model_retrained, run, first_run, fi_call>>

\* np.min over the rationals of a non-empty array
RMin(a) == CHOOSE k \in 1..Len(a) : \A l \in 1..Len(a) : RLeq(a[k], a[l])

\* line 465: np.argwhere(mean_abs_err == np.min(mean_abs_err))[0][0], 1-based
argmin_last(a) ==
    CHOOSE k \in 1..Len(a) :
        /\ REq(a[k], a[RMin(a)])
        /\ \A l \in (k + 1)..Len(a) : ~REq(a[l], a[RMin(a)])
argmin_first(a) ==
    CHOOSE k \in 1..Len(a) :
        /\ REq(a[k], a[RMin(a)])
        /\ \A l \in 1..(k - 1) : ~REq(a[l], a[RMin(a)])

\* lines 464-469
SelectBest ==
    /\ cv_pc = "select"
    /\ IF nmodels = 0
       THEN Raise("ValueError") /\ ibest' = ibest       \* np.min of an empty array
       ELSE ibest' = argmin_first(perf.mean_abs_err) /\ cv_pc' = "retrain" /\ cv_err' = cv_err
    /\ UNCHANGED <<sla_vars, cv_args, np_random, files, i, j, kfold_splits, folds, fold_log, perf,
                   estimator_calls, best_model_retrained, run, first_run, fi_call>>

\* the rows line 472 fits the selected estimator on
retrain_rows_last_fold(n, splits) == Rows(n) \ splits[Len(splits)]
retrain_rows(n, splits) == Rows(n)

\* lines 471-472: best_model.fit(X, y)
Retrain ==
    /\ cv_pc = "retrain"
    /\ estimator_calls' = [estimator_calls EXCEPT ![ibest] =
           @ \o << <<"fit", retrain_rows(data_rows, kfold_splits)>> >>]
    /\ \/ cv_pc' = "dump" /\ cv_err' = cv_err
       \/ Raise("FitError")
    /\ UNCHANGED <<sla_vars, cv_args, np_random, files, i, j, kfold_splits, folds, fold_log, perf,
                   ibest, best_model_retrained, run, first_run, fi_call>>

\* whether line 473 writes the model: the source has no flag for it
dump_enabled_by_flag(flag) == flag
dump_enabled(flag) == TRUE

\* lines 473-476: dump the retrained model, return it
DumpAndReturn ==
    /\ cv_pc = "dump"
    /\ IF dump_enabled(save_performances)
       THEN IF write_outcome(out_path) = "written"
            THEN /\ files' = files \cup {"best_model"}
                 /\ cv_pc' = "returned"
                 /\ best_model_retrained' = ibest
                 /\ cv_err' = cv_err
            ELSE Raise(write_outcome(out_path)) /\ UNCHANGED <<files, best_model_retrained>>
       ELSE /\ cv_pc' = "returned"
            /\ best_model_retrained' = ibest
            /\ UNCHANGED <<files, cv_err>>
    /\ UNCHANGED <<sla_vars, cv_args, np_random, i, j, kfold_splits, folds, fold_log, perf, estimator_calls,
                   ibest, run, first_run, fi_call>>

-----------------------------------------------------------------------------
(* assess_model_feature_importances, called with the returned model *)

\* os.path.exists(path)
path_exists(path) ==
    CASE path = "None" -> "TypeError"
      [] path = "missing" -> "no"
      [] OTHER -> "yes"

FiIdle == [pc |-> "idle", out_path |-> "None", figure_out_path |-> "None",
           err |-> "", result |-> "none"]

\* the two tests of lines 545 and 551 made side by side instead of nested
importances_outcome_unnested(op, fp) ==
    IF path_exists(op) = "TypeError" \/ path_exists(fp) = "TypeError"
    THEN [pc |-> "raised", err |-> "TypeError", written |-> {}]
    ELSE [pc |-> "returned", err |-> "",
          written |-> (IF path_exists(op) = "yes" THEN {"importances"} ELSE {})
                          \cup (IF path_exists(fp) = "yes" THEN {"figure"} ELSE {})]

\* lines 515-560, for the arguments out_path = op and figure_out_path = fp
importances_outcome(op, fp) ==
    CASE path_exists(op) = "TypeError" ->
            [pc |-> "raised", err |-> "TypeError", written |-> {}]
      [] path_exists(op) = "no" ->
            [pc |-> "returned", err |-> "", written |-> {}]
      [] OTHER ->
            CASE path_exists(fp) = "TypeError" ->
                    [pc |-> "raised", err |-> "TypeError", written |-> {"importances"}]
              [] path_exists(fp) = "no" ->
                    [pc |-> "returned", err |-> "", written |-> {"importances"}]
              [] OTHER ->
                    [pc |-> "returned", err |-> "", written |-> {"importances", "figure"}]

assess_model_feature_importances ==
    /\ cv_pc = "returned"
    /\ fi_call.pc = "idle"
    /\ \E op \in PathKinds, fp \in PathKinds :
          LET o == importances_outcome(op, fp)
          IN  /\ fi_call' = [pc |-> o.pc, out_path |-> op, figure_out_path |-> fp,
                             err |-> o.err,
                             result |-> IF o.pc = "returned" THEN "feature_importances"
                                        ELSE "none"]
              /\ files' = files \cup o.written
    /\ UNCHANGED <<sla_vars, cv_args, np_random, cv_locals, run, first_run>>

-----------------------------------------------------------------------------
(* The program is run again on the same table with the same num_folds: a new
   process, so the estimators, the output directory and numpy's RNG start anew *)

CvLocalsInit ==
    /\ cv_pc = "call"
    /\ cv_err = ""
    /\ i = 0
    /\ j = 0
    /\ kfold_splits = <<>>
    /\ folds = NoFolds
    /\ fold_log = <<>>
    /\ perf = NoPerf
    /\ estimator_calls = [m \in 1..nmodels |-> <<>>]
    /\ ibest = 0
    /\ best_model_retrained = 0
    /\ files = {}
    /\ fi_call = FiIdle

Rerun ==
    /\ cv_pc \in {"returned", "raised"}
    /\ run = 1
    /\ run' = run + 1
    /\ np_random' \in SeedValues
    /\ out_path' \in PathKinds
    /\ save_performances' \in BOOLEAN
    /\ cv_pc' = "call"
    /\ cv_err' = ""
    /\ i' = 0
    /\ j' = 0
    /\ kfold_splits' = <<>>
    /\ folds' = NoFolds
    /\ fold_log' = <<>>
    /\ perf' = NoPerf
    /\ estimator_calls' = [m \in 1..nmodels |-> <<>>]
    /\ ibest' = 0
    /\ best_model_retrained' = 0
    /\ files' = {}
    /\ fi_call' = FiIdle
    /\ UNCHANGED <<sla_vars, data_rows, nmodels, num_folds, first_run>>

-----------------------------------------------------------------------------
(* Specifications *)

Rasters(values) == UNION {[1..n -> values] : n \in 1..MaxCells}

CvInit ==
    /\ data_rows \in 1..MaxRows
    /\ nmodels \in 0..MaxModels
    /\ num_folds \in 2..MaxFolds
    /\ out_path \in PathKinds
    /\ save_performances \in BOOLEAN
    /\ np_random \in SeedValues
    /\ run = 1
    /\ first_run = [np_random |-> np_random, splits |-> <<>>]
    /\ CvLocalsInit

\* the state of the part of the program a specification leaves out
CvIdle ==
    /\ data_rows = 2 /\ nmodels = 0 /\ num_folds = 2 /\ out_path = "None"
    /\ save_performances = FALSE /\ np_random = 1 /\ run = 1
    /\ first_run = [np_random |-> np_random, splits |-> <<>>]
    /\ CvLocalsInit
SlaIdle ==
    /\ dem = <<NaN>> /\ snow_cover_mask = <<NaN>>
    /\ stats_df = [AAR |-> 0, ELA_from_AAR_m |-> 1] /\ dx = 1
    /\ sla_call = [pc |-> "idle", err |-> "", res |-> NoResult]

SlaInit ==
    /\ CvIdle
    /\ dem \in Rasters(Elevations \cup {NaN})
    /\ snow_cover_mask \in [1..Len(dem) -> {0, 1, NaN}]
    /\ stats_df \in [AAR : 0..AarDen, ELA_from_AAR_m : Elevations]
    /\ dx \in DxValues
    /\ sla_call = [pc |-> "call", err |-> "", res |-> NoResult]

SlaNext == calculate_sla_bounds

SpecSLA == SlaInit /\ [][SlaNext]_vars

Init == SlaIdle /\ CvInit

Next ==
    \/ Enter
    \/ BeginModel
    \/ FoldStep
    \/ Aggregate
    \/ SavePerformances
    \/ SelectBest
    \/ Retrain
    \/ DumpAndReturn
    \/ assess_model_feature_importances
    \/ Rerun

Spec == Init /\ [][Next]_vars

-----------------------------------------------------------------------------
(* Claims about calculate_sla_bounds *)

\* the minimum and the maximum of the non-missing values of a raster
nanmin(a) == SortCells(a, ValidCells(a))[1]
nanmax(a) == SortCells(a, ValidCells(a))[Cardinality(ValidCells(a))]

SlaReturned == sla_call.pc = "returned"
SlaWellFormed == npx_of(dem) >= 1 /\ stats_df.AAR \in 0..AarDen

\* C1: for every well-formed input (at least one non-missing DEM cell, AAR in
\* [0,1]) the returned triple satisfies lower <= central <= upper and all
\* three altitudes lie between the minimum and the maximum non-missing DEM value.
C1_BoundsOrderedAndInRange ==
    (sla_call.pc # "call" /\ SlaWellFormed) =>
        /\ SlaReturned
        /\ RLeq(sla_call.res.sla_lower_bound, sla_call.res.sla)
        /\ RLeq(sla_call.res.sla, sla_call.res.sla_upper_bound)
        /\ \A a \in {sla_call.res.sla_lower_bound, sla_call.res.sla,
                     sla_call.res.sla_upper_bound} :
               RLeq(RInt(nanmin(dem)), a) /\ RLeq(a, RInt(nanmax(dem)))

\* C2: whenever no cell is snow-free above the threshold and no cell is
\* snow-covered below it (delta_up = delta_down = 0) the returned bound
\* collapses: lower = central = upper.
C2_BoundCollapses ==
    (SlaReturned /\ sla_call.res.delta_up[1] = 0 /\ sla_call.res.delta_down[1] = 0) =>
        /\ REq(sla_call.res.sla_lower_bound, sla_call.res.sla)
        /\ REq(sla_call.res.sla, sla_call.res.sla_upper_bound)

\* C3: if the DEM has no non-missing cell (total valid area zero) the call
\* fails with an explicit "no valid area" condition, and neither divides by
\* zero nor returns percentile-derived altitudes.
C3_NoValidAreaIsExplicit ==
    (sla_call.pc # "call" /\ npx_of(dem) = 0) =>
        (sla_call.pc = "raised" /\ sla_call.err = "NoValidArea")

\* C4: if (1 - AAR) + delta_up exceeds 1 the upper percentile used is exactly
\* 1 and the returned upper bound is the maximum non-missing DEM value;
\* symmetrically, if (1 - AAR) - delta_down is below 0 the lower percentile
\* used is exactly 0 and the lower bound is the minimum non-missing DEM value.
C4_PercentilesClamped ==
    (sla_call.pc # "call" /\ npx_of(dem) >= 1) =>
        LET ur == upper_raw_percentile(stats_df, dem, snow_cover_mask, dx)
            lr == lower_raw_percentile(stats_df, dem, snow_cover_mask, dx)
        IN  /\ ur[1] > ur[2] =>
                /\ SlaReturned
                /\ sla_call.res.upper_sla_percentile[1] = sla_call.res.upper_sla_percentile[2]
                /\ REq(sla_call.res.sla_upper_bound, RInt(nanmax(dem)))
            /\ lr[1] < 0 =>
                /\ SlaReturned
                /\ sla_call.res.lower_sla_percentile[1] = 0
                /\ REq(sla_call.res.sla_lower_bound, RInt(nanmin(dem)))

\* a returned call whose raw upper percentile exceeded 1 over a DEM with
\* distinct elevations (so the clamp changes the altitude)
C4_Witness ==
    /\ SlaReturned
    /\ npx_of(dem) >= 2
    /\ nanmin(dem) < nanmax(dem)
    /\ LET ur == upper_raw_percentile(stats_df, dem, snow_cover_mask, dx)
       IN  ur[1] > ur[2]

-----------------------------------------------------------------------------
(* Claims about determine_best_model and assess_model_feature_importances *)

Candidates == 1..nmodels
FitCalls(m) == {t \in 1..Len(estimator_calls[m]) : estimator_calls[m][t][1] = "fit"}
LastCall(m) == estimator_calls[m][Len(estimator_calls[m])]
Selected == cv_pc \in {"retrain", "dump", "returned"}

\* C5: the selected candidate has the minimum cross-validated mean absolute
\* error, and among the candidates that share the minimum it is the one that
\* comes first in the input list.
C5_SelectsFirstMinimum ==
    Selected =>
        /\ ibest \in Candidates
        /\ \A l \in Candidates : RLeq(perf.mean_abs_err[ibest], perf.mean_abs_err[l])
        /\ \A l \in 1..(ibest - 1) :
               ~REq(perf.mean_abs_err[l], perf.mean_abs_err[ibest])

\* two candidates tie at a non-zero minimum and a third, worse one comes between or after
C5_Witness ==
    /\ cv_pc = "returned"
    /\ nmodels >= 2
    /\ ibest = 1
    /\ perf.mean_abs_err[1][1] > 0
    /\ REq(perf.mean_abs_err[1], perf.mean_abs_err[2])

\* C6: once every candidate has finished its K folds, the selected estimator,
\* and only it, is fitted exactly once more, on all rows; the model handed
\* back to the caller is that estimator, last fitted on all rows and not on a
\* fold's training rows.
C6_RetrainedOnceOnAllRows ==
    /\ cv_pc \in {"save", "select", "retrain"} =>
           \A m \in Candidates : Cardinality(FitCalls(m)) = num_folds
    /\ cv_pc \in {"dump", "returned"} =>
           /\ \A m \in Candidates :
                  Cardinality(FitCalls(m)) = num_folds + (IF m = ibest THEN 1 ELSE 0)
           /\ LastCall(ibest) = <<"fit", Rows(data_rows)>>
           /\ \A t \in 1..(Len(estimator_calls[ibest]) - 1) :
                  estimator_calls[ibest][t][2] # Rows(data_rows)
    /\ cv_pc = "returned" => best_model_retrained = ibest

\* the second of two candidates is selected, retrained and returned
C6_Witness ==
    /\ cv_pc = "returned"
    /\ nmodels >= 2
    /\ best_model_retrained = 2
    /\ data_rows > num_folds

RECURSIVE LogSum(_, _)
LogSum(log, field) == IF log = <<>> THEN 0 ELSE log[1][field] + LogSum(Tail(log), field)
FoldMean(field) == <<LogSum(fold_log, field), Len(fold_log)>>
JustAggregated == cv_pc \in {"model", "save"} /\ i > 1 /\ Len(fold_log) = num_folds

\* C7: for every candidate each of the five aggregate metrics equals the
\* arithmetic mean, over all K folds, of that same metric's per-fold values.
C7_AggregatesAreOwnFoldMeans ==
    JustAggregated =>
        /\ REq(perf.mean_abs_err[i - 1], FoldMean("mae"))
        /\ REq(perf.mean_sq_err[i - 1], FoldMean("mse"))
        /\ REq(perf.mean_abs_percentage_err[i - 1], FoldMean("mape"))
        /\ REq(perf.max_err[i - 1], FoldMean("maxerr"))
        /\ REq(perf.rsq[i - 1], FoldMean("r2"))

\* the folds a candidate was evaluated on, as its fit / predict calls show them
FoldCalls(m) ==
    LET len == IF Len(estimator_calls[m]) < 2 * num_folds
               THEN Len(estimator_calls[m]) ELSE 2 * num_folds
    IN  [t \in 1..len |-> estimator_calls[m][t]]
SamePrefix(a, b) ==
    \A t \in 1..(IF Len(a) < Len(b) THEN Len(a) ELSE Len(b)) : a[t] = b[t]

C8_SameFoldsForEveryCandidate ==
    \A m1, m2 \in Candidates : SamePrefix(FoldCalls(m1), FoldCalls(m2))
C8_SameFoldsInEveryRun ==
    (run = 2 /\ cv_pc = "fold") =>
        \A r \in 1..Len(first_run.splits) : first_run.splits[r] = kfold_splits

\* C8 (as amended): the K-fold partition is produced by a deterministic shuffle
\* seeded by the constant random_state = 1 of the source, whatever seed the
\* caller has set; within one invocation every candidate is evaluated on the
\* identical sequence of (train, test) index sets; repeated invocations with
\* the same data and num_folds yield the same fold assignments.
C8_FoldsFixedBySourceSeed ==
    /\ cv_pc = "fold" =>
           kfold_splits = test_indices(Permutation(1, data_rows), data_rows, num_folds)
    /\ C8_SameFoldsForEveryCandidate
    /\ C8_SameFoldsInEveryRun

\* C8 (as claimed): as above, but with the shuffle seeded by a seed the caller
\* supplies.
C8_FoldsSeededByCaller ==
    /\ cv_pc = "fold" =>
           kfold_splits = test_indices(Permutation(np_random, data_rows), data_rows, num_folds)
    /\ C8_SameFoldsForEveryCandidate
    /\ C8_SameFoldsInEveryRun

\* the second run, started from another RNG state than the first, is in the
\* folds of its second candidate
C8_Witness ==
    /\ run = 2
    /\ np_random # first_run.np_random
    /\ Len(first_run.splits) >= 2
    /\ cv_pc = "fold"
    /\ i = 2
    /\ j >= 1

PersistenceErrors == {"TypeError", "OSError"}
CvEnded == cv_pc \in {"returned", "raised"}

C10_BadDirectoryNeverAborts ==
    /\ cv_pc = "raised" => cv_err \notin PersistenceErrors
    /\ fi_call.pc # "raised"
    /\ fi_call.pc = "returned" => fi_call.result = "feature_importances"

FoldFailures == {"FitError", "PredictError"}
\* an exception of fit or predict left the fold loop (nothing was selected yet)
FoldFailed == cv_pc = "raised" /\ cv_err \in FoldFailures /\ ibest = 0

\* C11: when a fit or predict fails in some fold of a candidate, no aggregate
\* is formed for that candidate from the folds that did complete, and the
\* failure is not fatal to the run: the run does not end with that exception,
\* the remaining candidates are still evaluated and a best model is selected.
C11_FoldFailureIsNotFatal ==
    /\ FoldFailed => \A name \in DOMAIN perf : perf[name][i] = <<0, 1>>
    /\ ~FoldFailed

\* the calls fold f asks of an estimator: one fit on the fold's training rows,
\* then one predict on its test rows
FoldPair(f) == << <<"fit", Rows(data_rows) \ kfold_splits[f]>>, <<"predict", kfold_splits[f]>> >>
\* the calls of candidate m are those of its first n folds, in order
RanFolds(m, n) ==
    /\ Len(estimator_calls[m]) >= 2 * n
    /\ \A f \in 1..n :
           /\ estimator_calls[m][2 * f - 1] = FoldPair(f)[1]
           /\ estimator_calls[m][2 * f] = FoldPair(f)[2]
InFoldLoop == cv_pc \in {"fold", "model"} /\ kfold_splits # <<>>

\* C12: during the fold loop every (candidate, fold) pair performs exactly one
\* fit on that fold's training partition followed by exactly one predict on
\* its test partition, so each candidate has received exactly num_folds fit
\* calls before selection; the fold counter that indexes the per-fold metric
\* arrays stays within 0..num_folds-1 whenever a fold is run.
C12_OneFitOnePredictPerFold ==
    /\ InFoldLoop =>
           /\ \A m \in 1..(i - 1) :
                  RanFolds(m, num_folds) /\ Len(estimator_calls[m]) = 2 * num_folds
           /\ cv_pc = "fold" =>
                  /\ RanFolds(i, j) /\ Len(estimator_calls[i]) = 2 * j
                  /\ Len(fold_log) = j
                  /\ j \in 0..num_folds
                  /\ ENABLED FoldStep =>
                         /\ j \in 0..(num_folds - 1)
                         /\ \A name \in {"mean_abs_err_folds", "mean_sq_err_folds",
                                         "mean_abs_percentage_err_folds", "max_err_folds"} :
                                (j + 1) \in DOMAIN folds[name]
    /\ cv_pc \in {"save", "select"} =>
           \A m \in Candidates :
               /\ RanFolds(m, num_folds)
               /\ Len(estimator_calls[m]) = 2 * num_folds
               /\ Cardinality(FitCalls(m)) = num_folds

\* the second candidate has run its last fold, on a table with more rows than folds
C12_Witness ==
    /\ cv_pc = "fold"
    /\ i = 2
    /\ j = num_folds
    /\ data_rows > num_folds
    /\ RanFolds(1, num_folds)
    /\ RanFolds(2, num_folds)

FiEnded == fi_call.pc \in {"returned", "raised"}

\* C13: assess_model_feature_importances writes the figure only when both
\* out_path and figure_out_path exist: if out_path does not exist, neither the
\* importances table nor the figure is written, even when figure_out_path is
\* an existing directory.
C13_FigureNeedsBothPaths ==
    /\ ~FiEnded => files \cap {"importances", "figure"} = {}
    /\ FiEnded =>
           /\ "figure" \in files <=>
                  (fi_call.out_path = "dir" /\ fi_call.figure_out_path = "dir")
           /\ "importances" \in files <=> fi_call.out_path = "dir"
           /\ fi_call.out_path # "dir" => files \cap {"importances", "figure"} = {}

\* the call returned with a missing out_path and an existing figure_out_path
C13_Witness ==
    /\ fi_call.pc = "returned"
    /\ fi_call.out_path = "missing"
    /\ fi_call.figure_out_path = "dir"
    /\ "best_model" \in files

SnowFreeAbove == snow_free_above_sla(dem, snow_cover_mask, stats_df.ELA_from_AAR_m)
SnowCoveredBelow == snow_covered_below_sla(dem, snow_cover_mask, stats_df.ELA_from_AAR_m)

\* C14: the "snow-free above the threshold" and "snow-covered below the
\* threshold" cell sets are disjoint subsets of the non-missing DEM cells: a
\* cell whose elevation equals the threshold, or whose elevation or mask is
\* missing, is in neither.  Hence whenever the total area is positive,
\* delta_up >= 0, delta_down >= 0 and delta_up + delta_down <= 1.
C14_MisclassifiedSetsDisjoint ==
    /\ SnowFreeAbove \cap SnowCoveredBelow = {}
    /\ (SnowFreeAbove \cup SnowCoveredBelow) \subseteq ValidCells(dem)
    /\ \A c \in 1..Len(dem) :
           (dem[c] = stats_df.ELA_from_AAR_m \/ isnan(dem[c]) \/ isnan(snow_cover_mask[c]))
               => c \notin (SnowFreeAbove \cup SnowCoveredBelow)
    /\ (sla_call.pc # "call" /\ total_area_of(dem, dx) > 0) =>
           /\ SlaReturned
           /\ sla_call.res.delta_up[2] = total_area_of(dem, dx)
           /\ sla_call.res.delta_down[2] = total_area_of(dem, dx)
           /\ sla_call.res.delta_up[1] = Cardinality(SnowFreeAbove) * dx * dx
           /\ sla_call.res.delta_down[1] = Cardinality(SnowCoveredBelow) * dx * dx
           /\ sla_call.res.delta_up[1] >= 0
           /\ sla_call.res.delta_down[1] >= 0
           /\ sla_call.res.delta_up[1] + sla_call.res.delta_down[1] <= total_area_of(dem, dx)

\* a returned call on a raster with a snow-free cell above the threshold and a
\* snow-covered cell below it
C14_Witness ==
    /\ SlaReturned
    /\ sla_call.res.delta_up[1] > 0
    /\ sla_call.res.delta_down[1] > 0

====
